---- MODULE Spec2Model ----
(***************************************************************************)
(* A model of tclx/train/finetune_base.py: the fine-tuning driver          *)
(* (train, __main__), its batched-generation helper (call_model), its      *)
(* evaluation callback (SampleCallback.on_evaluate) and the batch          *)
(* collation function handed to the Trainer.                               *)
(*                                                                         *)
(* Four specifications share the module:                                   *)
(*   SplitSpec     the train/eval split of train(), lines 61-64            *)
(*   CollateSpec   the data_collator lambda, lines 86-90                   *)
(*   CallModelSpec call_model, lines 14-34, one loop iteration per step    *)
(*   Spec          the whole script run by NumProcs processes              *)
(***************************************************************************)
EXTENDS Integers, Sequences, FiniteSets, TLC

\* ------------------------------------------------------------------ bounds
\* Largest dataset length the split is checked for.
MaxData == 120

\* --------------------------------------------------------------- utilities
RECURSIVE BitLen(_)
\* Number of binary digits of x (0 for x = 0).
BitLen(x) == IF x = 0 THEN 0 ELSE 1 + BitLen(x \div 2)

\* Python's range(n) as a list: [0, 1, ..., n-1].
Range(n) == [i \in 1..n |-> i - 1]

\* The elements of a list, as a set.
Elems(s) == {s[i] : i \in 1..Len(s)}

\* ---------------------------------------------- the split, lines 61-64
\* The double 0.02 is exactly Mant * 2^-MantScale with
\* Mant = Mant2 * 2^40 + Mant1 * 2^20 + Mant0 = 5764607523034235.
\* It is kept in three 20-bit limbs so that products stay within TLC's integers.
Mant2 == 5242
Mant1 == 922746
Mant0 == 922747
LimbBits == 20
MantScale == 58
DoubleBits == 53
LimbBase == 2^LimbBits

\* len(data) * 0.02 in IEEE-754 double arithmetic: the exact product
\* n * Mant, rounded to DoubleBits significant bits (round half to even),
\* as limbs [hi, mid, lo] of a value scaled by 2^-MantScale.
FloatMul002(n) ==
    LET t0 == n * Mant0
        r0 == t0 % LimbBase
        t1 == n * Mant1 + (t0 \div LimbBase)
        r1 == t1 % LimbBase
        t2 == n * Mant2 + (t1 \div LimbBase)
        bits == BitLen(t2) + 2 * LimbBits
        d == IF bits > DoubleBits THEN bits - DoubleBits ELSE 0
        low == r0 % (2^d)
        up == /\ d > 0
              /\ \/ 2 * low > 2^d
                 \/ 2 * low = 2^d /\ (r0 \div (2^d)) % 2 = 1
        q0 == (r0 - low) + (IF up THEN 2^d ELSE 0)
        q1 == r1 + (q0 \div LimbBase)
        q2 == t2 + (q1 \div LimbBase)
    IN  [hi |-> q2, mid |-> q1 % LimbBase, lo |-> q0 % LimbBase]

\* int(x) for a non-negative double x held as limbs: truncation.
IntOfFloat(x) == x.hi \div (2^(MantScale - 2 * LimbBits))

\* A mutant of EvalSize: the cut-off rounded up instead of truncated.
EvalSizeCeil(n) ==
    LET x == FloatMul002(n)
        whole == IntOfFloat(x)
        frac == (x.hi % (2^(MantScale - 2 * LimbBits))) + x.mid + x.lo
    IN  IF frac > 0 THEN whole + 1 ELSE whole

\* Line 62: eval_size = int(len(data) * 0.02)
EvalSize(n) == IntOfFloat(FloatMul002(n))

\* Line 63: the indices given to data.select for the eval split.
EvalIndices(n) == Range(EvalSize(n))

\* A mutant of TrainIndices: the offset eval_size left out.
TrainIndicesNoOffset(n) == Range(n - EvalSize(n))

\* Line 64: the indices given to data.select for the train split.
TrainIndices(n) == [i \in 1..(n - EvalSize(n)) |-> EvalSize(n) + (i - 1)]

VARIABLES
    split_pc,     \* "load" before lines 62-64 have run, "done" after
    split_len,    \* len(data) as loaded at line 61
    eval_sel,     \* the index list of line 63
    train_sel     \* the index list of line 64

splitVars == <<split_pc, split_len, eval_sel, train_sel>>

SplitInit ==
    /\ split_pc = "load"
    /\ split_len \in 0..MaxData
    /\ eval_sel = <<>>
    /\ train_sel = <<>>

\* Lines 62-64 of train().
Split ==
    /\ split_pc = "load"
    /\ eval_sel' = EvalIndices(split_len)
    /\ train_sel' = TrainIndices(split_len)
    /\ split_pc' = "done"
    /\ UNCHANGED split_len

\* ------------------------------------- the data_collator, lines 86-90
\* Largest batch handed to the collator, number of distinct dataset rows it
\* is drawn from, and longest example.
MaxBatch == 3
MaxRows == 3
MaxSeqLen == 2

\* Component indices of an example f: f[0], f[1], f[2] in the source.
InputIdsAt == 1
AttentionMaskAt == 2
LabelsAt == 3

\* The example the dataset adapter yields for row r: a triple (input ids,
\* attention mask, labels) of tensors of one length l.  Every element is
\* tagged with its row, component and position, so that any mixing shows.
Example(r, l) ==
    << [k \in 1..l |-> <<r, InputIdsAt, k>>],
       [k \in 1..l |-> <<r, AttentionMaskAt, k>>],
       [k \in 1..l |-> <<r, LabelsAt, k>> ] >>

\* torch.stack accepts a non-empty list of tensors of one shape.
Stackable(ts) ==
    /\ Len(ts) > 0
    /\ \A i \in 1..Len(ts) : Len(ts[i]) = Len(ts[1])

\* torch.stack(ts): the tensors as the rows of a new tensor, in list order.
Stack(ts) == [i \in 1..Len(ts) |-> ts[i]]

\* [f[c] for f in data]
Column(data, c) == [i \in 1..Len(data) |-> data[i][c]]

\* A mutant of DataCollator: labels taken from the attention mask.
DataCollatorMixed(data) ==
    [ input_ids |-> Stack(Column(data, InputIdsAt)),
      attention_mask |-> Stack(Column(data, AttentionMaskAt)),
      labels |-> Stack(Column(data, AttentionMaskAt)) ]

\* Lines 86-90: the lambda given to the Trainer as data_collator.
DataCollator(data) ==
    [ input_ids |-> Stack(Column(data, InputIdsAt)),
      attention_mask |-> Stack(Column(data, AttentionMaskAt)),
      labels |-> Stack(Column(data, LabelsAt)) ]

\* Whether the three torch.stack calls of the lambda succeed.
CollatorAccepts(data) ==
    /\ Stackable(Column(data, InputIdsAt))
    /\ Stackable(Column(data, AttentionMaskAt))
    /\ Stackable(Column(data, LabelsAt))

VARIABLES
    col_pc,       \* "sample" while the batch is drawn, then "done" or "raised"
    col_batch,    \* the list of examples handed to the collator
    col_out       \* the mapping the collator returned

collateVars == <<col_pc, col_batch, col_out>>

CollateInit ==
    /\ col_pc = "sample"
    /\ col_batch = <<>>
    /\ col_out = [input_ids |-> <<>>, attention_mask |-> <<>>, labels |-> <<>>]

\* The data loader draws one more example for the batch.
SampleExample ==
    /\ col_pc = "sample"
    /\ Len(col_batch) < MaxBatch
    /\ \E r \in 1..MaxRows, l \in 1..MaxSeqLen :
          col_batch' = Append(col_batch, Example(r, l))
    /\ UNCHANGED <<col_pc, col_out>>

\* The Trainer calls data_collator(col_batch).
Collate ==
    /\ col_pc = "sample"
    /\ IF CollatorAccepts(col_batch)
          THEN col_out' = DataCollator(col_batch) /\ col_pc' = "done"
          ELSE col_pc' = "raised" /\ UNCHANGED col_out
    /\ UNCHANGED col_batch

\* -------------------------------------------------- call_model, lines 14-34
\* Most prompts in a call, longest tokenised prompt, largest batch_size.
MaxPrompts == 4
MaxPromptLen == 2
MaxBatchSize == 3

\* Line 27: the padding value (the id the tokenizer gives for its pad token).
PadValue == 0

\* The tokens model.generate may sample; none is a prompt token.
NewTokens == {-1, -2}

\* The k-th token of the j-th prompt: all distinct, none the padding value.
TokenOf(j, k) == j * (MaxPromptLen + 1) + k

\* A prompt: its place in the list and the ids the tokenizer gives for it.
Prompt(j, l) == [id |-> j, ids |-> [k \in 1..l |-> TokenOf(j, k)]]

\* Lines 17-19: tok(prompt, return_tensors="pt").input_ids.flatten()
Tok(prompt) == prompt.ids

Min(a, b) == IF a < b THEN a ELSE b

Max(a, b) == IF a > b THEN a ELSE b

\* Python's s[a:b] for 0 <= a <= b: the slice is clipped to the list.
Slice(s, a, b) == SubSeq(s, Min(a, Len(s)) + 1, Min(b, Len(s)))

\* A mutant of PromptBatches: num_batches rounded down.
PromptBatchesFloor(prompts, batch_size) ==
    LET num_batches == Len(prompts) \div batch_size
    IN  [i \in 1..num_batches |->
            Slice(prompts, (i - 1) * batch_size, i * batch_size)]

\* Lines 20-23: num_batches and prompt_batches.
PromptBatches(prompts, batch_size) ==
    LET num_batches == (Len(prompts) + batch_size - 1) \div batch_size
    IN  [i \in 1..num_batches |->
            Slice(prompts, (i - 1) * batch_size, i * batch_size)]

\* torch.flip of a 1-d tensor.
Flip(t) == [k \in 1..Len(t) |-> t[Len(t) + 1 - k]]

RECURSIVE MaxLen(_)
\* The length of the longest tensor of a list (0 for the empty list).
MaxLen(ts) == IF ts = <<>> THEN 0 ELSE Max(Len(ts[1]), MaxLen(Tail(ts)))

\* pad_sequence(ts, batch_first=True, padding_value=v): every tensor is
\* extended at its end with v up to the longest length.
PadSequence(ts, v) ==
    [i \in 1..Len(ts) |->
        [k \in 1..MaxLen(ts) |-> IF k <= Len(ts[i]) THEN ts[i][k] ELSE v]]

\* A mutant of LeftPadBatch: the two flips left out.
RightPadBatch(batch) == PadSequence(batch, PadValue)

\* Lines 25-29: flip every prompt, pad, flip the batch along dimension 1.
LeftPadBatch(batch) ==
    LET flipped == [i \in 1..Len(batch) |-> Flip(batch[i])]
        padded == PadSequence(flipped, PadValue)
    IN  [i \in 1..Len(padded) |-> Flip(padded[i])]

\* Line 31: model.generate returns one sequence per input row, the row
\* followed by what was sampled (here one token g).
Generate(batch, g) == [i \in 1..Len(batch) |-> Append(batch[i], g)]

\* Line 32: tok.batch_decode gives one text per output row, in row order; a
\* text is identified with the ids it decodes.
BatchDecode(output) == [i \in 1..Len(output) |-> output[i]]

VARIABLES
    cm_pc,        \* "call", "loop" (lines 24-33), "returned"
    cm_prompts,   \* the argument prompts
    cm_bs,        \* the argument batch_size
    cm_tok,       \* prompts after lines 17-19
    cm_batches,   \* prompt_batches
    cm_i,         \* the loop's position in prompt_batches, from 1
    cm_fed,       \* the batches given to model.generate so far
    cm_answers    \* answers

cmVars == <<cm_pc, cm_prompts, cm_bs, cm_tok, cm_batches, cm_i, cm_fed,
            cm_answers>>

\* Every list of at most MaxPrompts prompts of at most MaxPromptLen tokens.
PromptLists ==
    UNION { { [j \in 1..n |-> Prompt(j, ls[j])] :
                ls \in [1..n -> 0..MaxPromptLen] } : n \in 0..MaxPrompts }

CallModelInit ==
    /\ cm_pc = "call"
    /\ cm_prompts \in PromptLists
    /\ cm_bs \in 1..MaxBatchSize
    /\ cm_tok = <<>>
    /\ cm_batches = <<>>
    /\ cm_i = 1
    /\ cm_fed = <<>>
    /\ cm_answers = <<>>

\* Lines 15-23: tokenise the prompts and cut them into batches.
CmEnter ==
    /\ cm_pc = "call"
    /\ cm_tok' = [j \in 1..Len(cm_prompts) |-> Tok(cm_prompts[j])]
    /\ cm_batches' = PromptBatches(cm_tok', cm_bs)
    /\ cm_answers' = <<>>
    /\ cm_pc' = "loop"
    /\ UNCHANGED <<cm_prompts, cm_bs, cm_i, cm_fed>>

\* Lines 25-33: one iteration of the loop over prompt_batches.
CmBatch ==
    /\ cm_pc = "loop"
    /\ cm_i <= Len(cm_batches)
    /\ LET batch == LeftPadBatch(cm_batches[cm_i])
       IN  /\ cm_fed' = Append(cm_fed, batch)
           /\ \E g \in NewTokens :
                 cm_answers' = cm_answers \o BatchDecode(Generate(batch, g))
    /\ cm_i' = cm_i + 1
    /\ UNCHANGED <<cm_pc, cm_prompts, cm_bs, cm_tok, cm_batches>>

\* Line 34: return answers.
CmReturn ==
    /\ cm_pc = "loop"
    /\ cm_i > Len(cm_batches)
    /\ cm_pc' = "returned"
    /\ UNCHANGED <<cm_prompts, cm_bs, cm_tok, cm_batches, cm_i, cm_fed,
                   cm_answers>>

\* ------------------------------------------ the script, lines 37-107
\* Processes of the distributed run, and evaluation events per training run.
NumProcs == 2
MaxEvals == 1

\* Line 40: at most this many prompts are sampled; line 14: batch_size.
PromptsCap == 16
DefaultBatchSize == 16

Procs == 0..(NumProcs - 1)

\* torch.distributed.get_rank() in process p.
Rank(p) == p

NoneValue == "None"

\* d[k] = v on a Python dict d.
DictSet(d, k, v) ==
    [x \in (DOMAIN d) \cup {k} |-> IF x = k THEN v ELSE d[x]]

\* The number of times e occurs in the list s.
Count(s, e) == Cardinality({i \in 1..Len(s) : s[i] = e})

\* The places of e in the list s.
Places(s, e) == {i \in 1..Len(s) : s[i] = e}

\* The configuration files the run may be given.
TrainerValues == {"unmasked", "masked", "ppo"}

TrainArgsValues ==
    { [output_dir |-> "ckpt"],
      [output_dir |-> "ckpt", deepspeed |-> "yaml_ds.json"] }

YamlFiles ==
    [ tokenizer_path : {"tok"}, model_path : {"lm"}, data_path : {"ds"},
      trainer : TrainerValues, train_args : TrainArgsValues ]

\* The command lines: --config_path is given, the other flags may be absent.
CommandLines ==
    [ config_path : {"config.yaml"},
      ds_config_path : {NoneValue, "ds_config.json"},
      deepspeed : {NoneValue, "ds_flag.json"} ]

\* The dataset lengths on disk.
DatasetLengths == {0, 100}

\* A mutant of MainConfig: line 105 left out.
MainConfigAsLoaded(file, a) == file

\* Lines 104-105: config = load_yaml(args.config_path);
\* config["train_args"]["deepspeed"] = args.ds_config_path
MainConfig(file, a) ==
    [file EXCEPT !.train_args = DictSet(@, "deepspeed", a.ds_config_path)]

\* Line 53: config.update({"eval_accumulation_steps": 2, "fp16_full_eval": True})
ConfigUpdate(c) ==
    DictSet(DictSet(c, "eval_accumulation_steps", 2), "fp16_full_eval", TRUE)

\* Line 56: the keyword arguments of TrainingArguments(**config["train_args"]).
TrainingKwargs(c) == c.train_args

\* A mutant of ShouldInit: the tracker is never initialised.
ShouldInitNever(p) == FALSE

\* Line 66: the guard of wandb.init.
ShouldInit(p) == Rank(p) = 0

\* A mutant of ShouldLog: every process logs.
ShouldLogAlways(p) == TRUE

\* Line 42: the guard of the logging call.
ShouldLog(p) == Rank(p) = 0

\* A mutant of AdapterClass: "masked" is not recognised.
AdapterClassUnmaskedOnly(t) ==
    IF t = "unmasked" THEN "SFTDataset" ELSE NoneValue

\* Lines 71-78: the adapter class a trainer value selects, NoneValue for the
\* else branch.
AdapterClass(t) ==
    IF t = "unmasked" THEN "SFTDataset"
    ELSE IF t = "masked" THEN "MaskedSFTDataset"
    ELSE NoneValue

\* SFTDataset(rows, tokenizer) / MaskedSFTDataset(rows, tokenizer).
Adapter(cls, rows) == [cls |-> cls, rows |-> rows]

NoDataset == Adapter(NoneValue, <<>>)

\* dataset.prompts of an adapter: one prompt per row.
AdapterPrompts(dataset) ==
    [i \in 1..Len(dataset.rows) |-> Prompt(dataset.rows[i] + 1, 1)]

RECURSIVE Answers(_, _, _)
\* The loop of lines 24-33 from batch i on; gs[i] is what generate samples
\* for batch i.
Answers(batches, i, gs) ==
    IF i > Len(batches) THEN <<>>
    ELSE BatchDecode(Generate(LeftPadBatch(batches[i]), gs[i]))
            \o Answers(batches, i + 1, gs)

\* Lines 14-34 as one call.
CallModel(prompts, batch_size, gs) ==
    LET tokd == [j \in 1..Len(prompts) |-> Tok(prompts[j])]
    IN  Answers(PromptBatches(tokd, batch_size), 1, gs)

\* The number of batches of a call, for drawing what each samples.
NumBatches(prompts, batch_size) ==
    Len(PromptBatches(prompts, batch_size))

\* Lines 43-48: the rows [prompt, response] of zip(prompts, responses).
ResponseTable(prompts, responses) ==
    [i \in 1..Min(Len(prompts), Len(responses)) |->
        <<prompts[i], responses[i]>>]

VARIABLES
    yaml,           \* the configuration file
    cli,            \* the command line every process is started with
    disk_len,       \* the length of the dataset's train split on disk
    pc,             \* per process: where it is in the script
    error,          \* per process: the exception that ended it, or NoneValue
    events,         \* per process: the calls made so far, in order
    args,           \* per process: args of line 102
    config,         \* per process: config
    kwargs,         \* per process: what TrainingArguments was given
    data,           \* per process: the row indices of data
    eval_data,      \* per process: the row indices of eval_data
    train_dataset,  \* per process
    eval_dataset,   \* per process
    evals,          \* per process: evaluation events of this training run
    wandb_runs,     \* per process: wandb.init calls
    wandb_logs,     \* per process: the tables given to wandb.log
    saved           \* per process: the directories given to save_pretrained

runVars == <<yaml, cli, disk_len, pc, error, events, args, config, kwargs,
             data, eval_data, train_dataset, eval_dataset, evals, wandb_runs,
             wandb_logs, saved>>

NoArgs == [config_path |-> NoneValue, ds_config_path |-> NoneValue,
           deepspeed |-> NoneValue, local_rank |-> 0]

NoDict == [k \in {} |-> NoneValue]

RunInit ==
    /\ yaml \in YamlFiles
    /\ cli \in CommandLines
    /\ disk_len \in DatasetLengths
    /\ pc = [p \in Procs |-> "start"]
    /\ error = [p \in Procs |-> NoneValue]
    /\ events = [p \in Procs |-> <<>>]
    /\ args = [p \in Procs |-> NoArgs]
    /\ config = [p \in Procs |-> NoDict]
    /\ kwargs = [p \in Procs |-> NoDict]
    /\ data = [p \in Procs |-> <<>>]
    /\ eval_data = [p \in Procs |-> <<>>]
    /\ train_dataset = [p \in Procs |-> NoDataset]
    /\ eval_dataset = [p \in Procs |-> NoDataset]
    /\ evals = [p \in Procs |-> 0]
    /\ wandb_runs = [p \in Procs |-> 0]
    /\ wandb_logs = [p \in Procs |-> <<>>]
    /\ saved = [p \in Procs |-> <<>>]

\* p moves to pc value to, having made the calls es.
Goes(p, to, es) ==
    /\ pc' = [pc EXCEPT ![p] = to]
    /\ events' = [events EXCEPT ![p] = @ \o es]

\* Lines 97-102: the argument parser.
ParseArgs(p) ==
    /\ pc[p] = "start"
    /\ args' = [args EXCEPT ![p] =
                  [config_path |-> cli.config_path,
                   ds_config_path |-> cli.ds_config_path,
                   deepspeed |-> cli.deepspeed,
                   local_rank |-> p]]
    /\ Goes(p, "parsed", <<"parse_args">>)
    /\ UNCHANGED <<yaml, cli, disk_len, error, config, kwargs, data,
                   eval_data, train_dataset, eval_dataset, evals, wandb_runs,
                   wandb_logs, saved>>

\* Lines 104-105.
LoadConfig(p) ==
    /\ pc[p] = "parsed"
    /\ config' = [config EXCEPT ![p] = MainConfig(yaml, args[p])]
    /\ Goes(p, "loaded", <<"load_yaml">>)
    /\ UNCHANGED <<yaml, cli, disk_len, error, args, kwargs, data, eval_data,
                   train_dataset, eval_dataset, evals, wandb_runs, wandb_logs,
                   saved>>

\* Lines 53-59: config.update, the tokenizer, TrainingArguments, the model.
Instantiate(p) ==
    /\ pc[p] = "loaded"
    /\ config' = [config EXCEPT ![p] = ConfigUpdate(@)]
    /\ kwargs' = [kwargs EXCEPT ![p] = TrainingKwargs(config'[p])]
    /\ Goes(p, "ready", <<"tokenizer", "training_args", "model">>)
    /\ UNCHANGED <<yaml, cli, disk_len, error, args, data, eval_data,
                   train_dataset, eval_dataset, evals, wandb_runs, wandb_logs,
                   saved>>

\* Lines 61-64: load the dataset and split it.
LoadAndSplit(p) ==
    /\ pc[p] = "ready"
    /\ eval_data' = [eval_data EXCEPT ![p] = EvalIndices(disk_len)]
    /\ data' = [data EXCEPT ![p] = TrainIndices(disk_len)]
    /\ Goes(p, "split", <<"load_dataset", "split">>)
    /\ UNCHANGED <<yaml, cli, disk_len, error, args, config, kwargs,
                   train_dataset, eval_dataset, evals, wandb_runs, wandb_logs,
                   saved>>

\* Line 61 raising: the dataset cannot be read.
LoadRaises(p) ==
    /\ pc[p] = "ready"
    /\ error' = [error EXCEPT ![p] = "LibraryError"]
    /\ Goes(p, "raised", <<"load_dataset">>)
    /\ UNCHANGED <<yaml, cli, disk_len, args, config, kwargs, data, eval_data,
                   train_dataset, eval_dataset, evals, wandb_runs, wandb_logs,
                   saved>>

\* Lines 66-69: wandb.init on rank 0, then the print.
InitTracker(p) ==
    /\ pc[p] = "split"
    /\ IF ShouldInit(p)
          THEN /\ wandb_runs' = [wandb_runs EXCEPT ![p] = @ + 1]
               /\ Goes(p, "tracked", <<"wandb_init">>)
          ELSE /\ Goes(p, "tracked", <<>>)
               /\ UNCHANGED wandb_runs
    /\ UNCHANGED <<yaml, cli, disk_len, error, args, config, kwargs, data,
                   eval_data, train_dataset, eval_dataset, evals, wandb_logs,
                   saved>>

\* Lines 71-78: wrap both splits, or raise ValueError.
WrapDatasets(p) ==
    /\ pc[p] = "tracked"
    /\ LET cls == AdapterClass(config[p].trainer)
       IN  IF cls # NoneValue
              THEN /\ train_dataset' =
                        [train_dataset EXCEPT ![p] = Adapter(cls, data[p])]
                   /\ eval_dataset' =
                        [eval_dataset EXCEPT ![p] = Adapter(cls, eval_data[p])]
                   /\ Goes(p, "wrapped", <<"wrap">>)
                   /\ UNCHANGED error
              ELSE /\ error' = [error EXCEPT ![p] = "ValueError"]
                   /\ Goes(p, "raised", <<"wrap">>)
                   /\ UNCHANGED <<train_dataset, eval_dataset>>
    /\ UNCHANGED <<yaml, cli, disk_len, args, config, kwargs, data, eval_data,
                   evals, wandb_runs, wandb_logs, saved>>

\* Lines 80-91: Trainer(...).
BuildTrainer(p) ==
    /\ pc[p] = "wrapped"
    /\ Goes(p, "built", <<"Trainer">>)
    /\ UNCHANGED <<yaml, cli, disk_len, error, args, config, kwargs, data,
                   eval_data, train_dataset, eval_dataset, evals, wandb_runs,
                   wandb_logs, saved>>

\* Line 92: trainer.train() is entered.
StartTraining(p) ==
    /\ pc[p] = "built"
    /\ evals' = [evals EXCEPT ![p] = 0]
    /\ Goes(p, "training", <<"train">>)
    /\ UNCHANGED <<yaml, cli, disk_len, error, args, config, kwargs, data,
                   eval_data, train_dataset, eval_dataset, wandb_runs,
                   wandb_logs, saved>>

\* Lines 38-49: the Trainer fires on_evaluate.
OnEvaluate(p) ==
    /\ pc[p] = "training"
    /\ evals[p] < MaxEvals
    /\ evals' = [evals EXCEPT ![p] = @ + 1]
    /\ LET prompts == Slice(AdapterPrompts(eval_dataset[p]), 0, PromptsCap)
       IN  \E gs \in [1..NumBatches(prompts, DefaultBatchSize) -> NewTokens] :
             LET responses == CallModel(prompts, DefaultBatchSize, gs)
             IN  IF ShouldLog(p)
                    THEN /\ wandb_logs' = [wandb_logs EXCEPT ![p] =
                               Append(@, ResponseTable(prompts, responses))]
                         /\ Goes(p, "training",
                                 <<"on_evaluate", "call_model", "wandb_log">>)
                    ELSE /\ Goes(p, "training", <<"on_evaluate", "call_model">>)
                         /\ UNCHANGED wandb_logs
    /\ UNCHANGED <<yaml, cli, disk_len, error, args, config, kwargs, data,
                   eval_data, train_dataset, eval_dataset, wandb_runs, saved>>

\* Line 92 raising: a failure inside the training loop propagates.
TrainRaises(p) ==
    /\ pc[p] = "training"
    /\ error' = [error EXCEPT ![p] = "LibraryError"]
    /\ Goes(p, "raised", <<>>)
    /\ UNCHANGED <<yaml, cli, disk_len, args, config, kwargs, data, eval_data,
                   train_dataset, eval_dataset, evals, wandb_runs, wandb_logs,
                   saved>>

\* Line 92: trainer.train() returns.
FinishTraining(p) ==
    /\ pc[p] = "training"
    /\ Goes(p, "trained", <<"train_returned">>)
    /\ UNCHANGED <<yaml, cli, disk_len, error, args, config, kwargs, data,
                   eval_data, train_dataset, eval_dataset, evals, wandb_runs,
                   wandb_logs, saved>>

\* A mutant of SaveModel: the model is saved also when the training loop
\* raised, as a finally clause would.
SaveModelAfterRaise(p) ==
    /\ \/ pc[p] = "trained"
       \/ pc[p] = "raised" /\ Count(events[p], "train") > 0
    /\ saved' = [saved EXCEPT ![p] = Append(@, config[p].train_args.output_dir)]
    /\ Goes(p, "saved", <<"save_pretrained">>)
    /\ UNCHANGED <<yaml, cli, disk_len, error, args, config, kwargs, data,
                   eval_data, train_dataset, eval_dataset, evals, wandb_runs,
                   wandb_logs>>

\* Line 93: model.save_pretrained(config["train_args"]["output_dir"]).
SaveModel(p) ==
    /\ pc[p] = "trained"
    /\ saved' = [saved EXCEPT ![p] = Append(@, config[p].train_args.output_dir)]
    /\ Goes(p, "saved", <<"save_pretrained">>)
    /\ UNCHANGED <<yaml, cli, disk_len, error, args, config, kwargs, data,
                   eval_data, train_dataset, eval_dataset, evals, wandb_runs,
                   wandb_logs>>

\* --------------------------------------------------------- specifications
vars == <<splitVars, collateVars, cmVars, runVars>>

SplitIdle ==
    /\ split_pc = "idle"
    /\ split_len = 0
    /\ eval_sel = <<>>
    /\ train_sel = <<>>

CollateIdle ==
    /\ col_pc = "idle"
    /\ col_batch = <<>>
    /\ col_out = [input_ids |-> <<>>, attention_mask |-> <<>>, labels |-> <<>>]

CallModelIdle ==
    /\ cm_pc = "idle"
    /\ cm_prompts = <<>>
    /\ cm_bs = 1
    /\ cm_tok = <<>>
    /\ cm_batches = <<>>
    /\ cm_i = 1
    /\ cm_fed = <<>>
    /\ cm_answers = <<>>

RunIdle ==
    /\ yaml = [tokenizer_path |-> NoneValue, model_path |-> NoneValue,
               data_path |-> NoneValue, trainer |-> NoneValue,
               train_args |-> NoDict]
    /\ cli = [config_path |-> NoneValue, ds_config_path |-> NoneValue,
              deepspeed |-> NoneValue]
    /\ disk_len = 0
    /\ pc = [p \in Procs |-> "idle"]
    /\ error = [p \in Procs |-> NoneValue]
    /\ events = [p \in Procs |-> <<>>]
    /\ args = [p \in Procs |-> NoArgs]
    /\ config = [p \in Procs |-> NoDict]
    /\ kwargs = [p \in Procs |-> NoDict]
    /\ data = [p \in Procs |-> <<>>]
    /\ eval_data = [p \in Procs |-> <<>>]
    /\ train_dataset = [p \in Procs |-> NoDataset]
    /\ eval_dataset = [p \in Procs |-> NoDataset]
    /\ evals = [p \in Procs |-> 0]
    /\ wandb_runs = [p \in Procs |-> 0]
    /\ wandb_logs = [p \in Procs |-> <<>>]
    /\ saved = [p \in Procs |-> <<>>]

SplitSpecInit == SplitInit /\ CollateIdle /\ CallModelIdle /\ RunIdle

SplitNext == Split /\ UNCHANGED <<collateVars, cmVars, runVars>>

SplitSpec == SplitSpecInit /\ [][SplitNext]_vars

CollateSpecInit == CollateInit /\ SplitIdle /\ CallModelIdle /\ RunIdle

CollateNext ==
    \/ SampleExample /\ UNCHANGED <<splitVars, cmVars, runVars>>
    \/ Collate /\ UNCHANGED <<splitVars, cmVars, runVars>>

CollateSpec == CollateSpecInit /\ [][CollateNext]_vars

CallModelSpecInit == CallModelInit /\ SplitIdle /\ CollateIdle /\ RunIdle

CallModelNext ==
    \/ CmEnter /\ UNCHANGED <<splitVars, collateVars, runVars>>
    \/ CmBatch /\ UNCHANGED <<splitVars, collateVars, runVars>>
    \/ CmReturn /\ UNCHANGED <<splitVars, collateVars, runVars>>

CallModelSpec == CallModelSpecInit /\ [][CallModelNext]_vars

Init == RunInit /\ SplitIdle /\ CollateIdle /\ CallModelIdle

otherVars == <<splitVars, collateVars, cmVars>>

Next ==
    \/ \E p \in Procs : ParseArgs(p) /\ UNCHANGED otherVars
    \/ \E p \in Procs : LoadConfig(p) /\ UNCHANGED otherVars
    \/ \E p \in Procs : Instantiate(p) /\ UNCHANGED otherVars
    \/ \E p \in Procs : LoadAndSplit(p) /\ UNCHANGED otherVars
    \/ \E p \in Procs : LoadRaises(p) /\ UNCHANGED otherVars
    \/ \E p \in Procs : InitTracker(p) /\ UNCHANGED otherVars
    \/ \E p \in Procs : WrapDatasets(p) /\ UNCHANGED otherVars
    \/ \E p \in Procs : BuildTrainer(p) /\ UNCHANGED otherVars
    \/ \E p \in Procs : StartTraining(p) /\ UNCHANGED otherVars
    \/ \E p \in Procs : OnEvaluate(p) /\ UNCHANGED otherVars
    \/ \E p \in Procs : TrainRaises(p) /\ UNCHANGED otherVars
    \/ \E p \in Procs : FinishTraining(p) /\ UNCHANGED otherVars
    \/ \E p \in Procs : SaveModel(p) /\ UNCHANGED otherVars

Spec == Init /\ [][Next]_vars

\* ------------------------------------------------------------- properties
\* What the mathematical cut-off floor(0.02 * n) is.
TwoPercent(n) == (2 * n) \div 100

\* The list has no element twice.
NoRepeats(s) == Cardinality(Elems(s)) = Len(s)

\* C1: for every dataset length, the eval and the train index lists are
\* disjoint, their sizes sum to the length, and together they hold every
\* index 0..N-1 exactly once.
C1_SplitPartitions ==
    split_pc = "done" =>
        /\ Elems(eval_sel) \cap Elems(train_sel) = {}
        /\ Len(eval_sel) + Len(train_sel) = split_len
        /\ Elems(eval_sel) \cup Elems(train_sel) = 0..(split_len - 1)
        /\ NoRepeats(eval_sel)
        /\ NoRepeats(train_sel)

\* A split with both parts non-empty and more than one eval row.
C1_Witness ==
    /\ split_pc = "done"
    /\ Len(eval_sel) >= 2
    /\ Len(train_sel) > 0

\* C2: the eval split is the first floor(0.02 * N) indices, the train split
\* the remaining N - floor(0.02 * N) in their original order; for N < 50 the
\* eval split is empty and the train split is the whole dataset.
C2_SplitSizes ==
    split_pc = "done" =>
        /\ eval_sel = Range(TwoPercent(split_len))
        /\ Len(train_sel) = split_len - TwoPercent(split_len)
        /\ \A i \in 1..Len(train_sel) :
              train_sel[i] = TwoPercent(split_len) + (i - 1)
        /\ split_len < 50 =>
              /\ eval_sel = <<>>
              /\ train_sel = Range(split_len)

\* A split of a length that is not a multiple of 50, with an eval part.
C2_Witness ==
    /\ split_pc = "done"
    /\ split_len % 50 # 0
    /\ Len(eval_sel) = 2

\* C4: for a non-empty batch of B examples whose components all have length
\* L, the collator returns exactly input_ids, attention_mask and labels, each
\* B x L, row i of each being component 0 / 1 / 2 of example i.
FixedLength(batch) ==
    \A i \in 1..Len(batch), c \in 1..3 : Len(batch[i][c]) = Len(batch[1][1])

C4_CollatorStacks ==
    (col_pc \in {"done", "raised"} /\ Len(col_batch) > 0 /\ FixedLength(col_batch))
    =>  /\ col_pc = "done"
        /\ DOMAIN col_out = {"input_ids", "attention_mask", "labels"}
        /\ \A key \in DOMAIN col_out :
              /\ Len(col_out[key]) = Len(col_batch)
              /\ \A i \in 1..Len(col_batch) :
                    Len(col_out[key][i]) = Len(col_batch[1][1])
        /\ \A i \in 1..Len(col_batch) :
              /\ col_out.input_ids[i] = col_batch[i][1]
              /\ col_out.attention_mask[i] = col_batch[i][2]
              /\ col_out.labels[i] = col_batch[i][3]

\* A collated batch of at least two different examples of length 2.
C4_Witness ==
    /\ col_pc = "done"
    /\ Len(col_batch) >= 2
    /\ col_batch[1] # col_batch[2]
    /\ Len(col_batch[1][1]) = 2

\* The least k with k * d >= n.
CeilDiv(n, d) ==
    CHOOSE k \in 0..n : k * d >= n /\ \A j \in 0..n : j * d >= n => k <= j

RECURSIVE Flatten(_)
\* The lists of a list of lists, one after the other.
Flatten(ss) == IF ss = <<>> THEN <<>> ELSE Head(ss) \o Flatten(Tail(ss))

\* The last l elements of s.
Suffix(s, l) == SubSeq(s, Len(s) - l + 1, Len(s))

\* C8: call_model cuts n prompts into ceil(n / batch_size) consecutive
\* batches, all but the last of batch_size prompts and none empty, every
\* prompt in exactly one batch; the returned answers are n, answer i being
\* that of prompt i; for n = 0 nothing is generated and the result is empty.
C8_Batching ==
    LET n == Len(cm_prompts)
        nb == Len(cm_batches)
    IN  /\ cm_pc \in {"loop", "returned"} =>
              /\ nb = CeilDiv(n, cm_bs)
              /\ \A i \in 1..nb :
                    /\ Len(cm_batches[i]) >= 1
                    /\ Len(cm_batches[i]) <= cm_bs
                    /\ i < nb => Len(cm_batches[i]) = cm_bs
              /\ Flatten(cm_batches) = [j \in 1..n |-> cm_prompts[j].ids]
        /\ cm_pc = "returned" =>
              /\ Len(cm_fed) = nb
              /\ Len(cm_answers) = n
              /\ \A j \in 1..n :
                    LET given == SubSeq(cm_answers[j], 1, Len(cm_answers[j]) - 1)
                    IN  /\ Suffix(given, Len(cm_prompts[j].ids)) = cm_prompts[j].ids
                        /\ cm_answers[j][Len(cm_answers[j])] \in NewTokens
              /\ n = 0 => cm_fed = <<>> /\ cm_answers = <<>>

\* A finished call with several batches, the last one short.
C8_Witness ==
    /\ cm_pc = "returned"
    /\ Len(cm_batches) >= 2
    /\ Len(cm_batches[Len(cm_batches)]) < cm_bs
    /\ Len(cm_answers) = Len(cm_prompts)

\* C9: every batch given to generate is k x M for the k prompts of the batch
\* and their greatest length M, row j being M - l_j padding values followed
\* by the tokens of prompt j in their order.
C9_LeftPadded ==
    \A b \in 1..Len(cm_fed) :
        LET batch == cm_batches[b]
            fed == cm_fed[b]
            M == CHOOSE m \in {Len(batch[j]) : j \in 1..Len(batch)} :
                    \A j \in 1..Len(batch) : Len(batch[j]) <= m
        IN  /\ Len(fed) = Len(batch)
            /\ \A j \in 1..Len(batch) :
                  LET pad == M - Len(batch[j])
                  IN  /\ Len(fed[j]) = M
                      /\ \A k \in 1..M :
                            fed[j][k] = IF k <= pad THEN PadValue
                                        ELSE batch[j][k - pad]

\* A batch given to generate with a short prompt beside a longer one.
C9_Witness ==
    \E b \in 1..Len(cm_fed) :
        \E i, j \in 1..Len(cm_batches[b]) :
            /\ Len(cm_batches[b][i]) >= 1
            /\ Len(cm_batches[b][j]) > Len(cm_batches[b][i])

\* The supported values of config["trainer"] and their adapter classes.
Supported == {"unmasked", "masked"}

Has(p, e) == Count(events[p], e) > 0

\* C3: an unsupported trainer value makes train() raise, and then no Trainer
\* is constructed, trainer.train() is not called and nothing is saved; a
\* supported value raises no such error and both splits are wrapped with the
\* one adapter class of that value.
C3_TrainerValidation ==
    \A p \in Procs :
        /\ error[p] = "ValueError" =>
              /\ Has(p, "wrap")
              /\ config[p].trainer \notin Supported
        /\ (Has(p, "wrap") /\ config[p].trainer \notin Supported) =>
              /\ error[p] = "ValueError"
              /\ ~Has(p, "Trainer")
              /\ ~Has(p, "train")
              /\ ~Has(p, "save_pretrained")
              /\ saved[p] = <<>>
        /\ (Has(p, "wrap") /\ config[p].trainer \in Supported) =>
              /\ error[p] # "ValueError"
              /\ train_dataset[p].cls = eval_dataset[p].cls
              /\ config[p].trainer = "unmasked" =>
                    train_dataset[p].cls = "SFTDataset"
              /\ config[p].trainer = "masked" =>
                    train_dataset[p].cls = "MaskedSFTDataset"
              /\ train_dataset[p].rows = data[p]
              /\ eval_dataset[p].rows = eval_data[p]

\* A process ended by the ValueError beside one that has not got there.
C3_Witness ==
    \E p \in Procs : error[p] = "ValueError" /\ pc[p] = "raised"

\* The steps of the script, in the order the specification gives them.
ScriptSteps ==
    << "parse_args", "load_yaml", "tokenizer", "model", "load_dataset",
       "split", "wrap", "Trainer", "train", "train_returned",
       "save_pretrained" >>

IsScriptStep(e) == e \in Elems(ScriptSteps)

\* C5: in every process the steps happen in the stated order, each once and
\* none before the one before it; the model is saved only after
\* trainer.train() has returned and never once a step has raised.
C5_LinearOrder ==
    \A p \in Procs :
        LET done == SelectSeq(events[p], IsScriptStep)
        IN  /\ Len(done) <= Len(ScriptSteps)
            /\ done = SubSeq(ScriptSteps, 1, Len(done))
            /\ Has(p, "save_pretrained") =>
                  /\ Has(p, "train_returned")
                  /\ error[p] = NoneValue
            /\ Len(saved[p]) = Count(events[p], "save_pretrained")
            /\ error[p] # NoneValue => saved[p] = <<>>

\* A process that has saved its model.
C5_Witness ==
    \E p \in Procs : pc[p] = "saved" /\ Len(saved[p]) = 1

\* C6 as stated: TrainingArguments is given exactly the train_args of the
\* configuration file.
C6_Verbatim ==
    \A p \in Procs : Has(p, "training_args") => kwargs[p] = yaml.train_args

\* C6 as amended: TrainingArguments is given the train_args of the file with
\* the key deepspeed set to the value of --ds_config_path (None when the flag
\* is absent); every other key is forwarded as loaded, whatever the other
\* flags are.
C6_VerbatimButDeepspeed ==
    \A p \in Procs :
        Has(p, "training_args") =>
            /\ DOMAIN kwargs[p] = (DOMAIN yaml.train_args) \cup {"deepspeed"}
            /\ kwargs[p].deepspeed = cli.ds_config_path
            /\ \A k \in (DOMAIN yaml.train_args) \ {"deepspeed"} :
                  kwargs[p][k] = yaml.train_args[k]

\* TrainingArguments built from a file that sets deepspeed, with
\* --ds_config_path absent.
C6_Witness ==
    \E p \in Procs :
        /\ Has(p, "training_args")
        /\ "deepspeed" \in DOMAIN yaml.train_args
        /\ cli.ds_config_path = NoneValue
        /\ cli.deepspeed # NoneValue

\* C7: only the process of rank 0 logs; every process runs call_model on
\* every evaluation event; a process of another rank never logs.
C7_RankZeroLogs ==
    \A p \in Procs :
        /\ Count(events[p], "on_evaluate") = evals[p]
        /\ Count(events[p], "call_model") = evals[p]
        /\ Len(wandb_logs[p]) = Count(events[p], "wandb_log")
        /\ Rank(p) = 0 => Len(wandb_logs[p]) = evals[p]
        /\ Rank(p) # 0 => wandb_logs[p] = <<>>

\* Rank 0 has logged a non-empty table and another rank has evaluated.
C7_Witness ==
    /\ \E p \in Procs : Rank(p) # 0 /\ evals[p] > 0
    /\ \E p \in Procs :
          /\ Rank(p) = 0
          /\ Len(wandb_logs[p]) > 0
          /\ Len(wandb_logs[p][1]) > 0

\* C10: in every process a wandb.log is preceded by a wandb.init of that
\* process; wandb.init is called at most once, and before the trainer
\* validation, the Trainer's construction and the training loop.
C10_InitBeforeLog ==
    \A p \in Procs :
        /\ Count(events[p], "wandb_init") <= 1
        /\ wandb_runs[p] = Count(events[p], "wandb_init")
        /\ \A i \in Places(events[p], "wandb_log") :
              \E j \in Places(events[p], "wandb_init") : j < i
        /\ \A j \in Places(events[p], "wandb_init") :
              \A i \in Places(events[p], "wrap") \cup Places(events[p], "Trainer")
                         \cup Places(events[p], "train") : j < i
        /\ Rank(p) = 0 /\ Has(p, "wrap") => Has(p, "wandb_init")

\* A process that has logged.
C10_Witness ==
    \E p \in Procs : Has(p, "wandb_log") /\ wandb_runs[p] = 1

====
